---- MODULE Spec2Model ----
(***************************************************************************)
(* Model of ThreadsClient (src/threads_client.py): the constructor with    *)
(* its identity probe and one-shot token refresh, refresh_access_token,    *)
(* the create -> poll -> publish workflow of post_thread, the other public *)
(* operations, and a client shared by an operation and a concurrent        *)
(* refresh (ConcSpec).                                                     *)
(*                                                                         *)
(* Texts (error messages, response bodies) are sequences of words; the     *)
(* substring tests of the code are membership tests on those words.        *)
(* The remote system is the environment: every response is chosen          *)
(* nondeterministically from a small set when the request is issued.       *)
(***************************************************************************)
EXTENDS Integers, Sequences, FiniteSets, TLC

VARIABLES
    pc,            \* position of the single thread of control
    op,            \* top-level invocation in progress or last completed
    auth_token,    \* self.auth_token
    auto_refresh,  \* self.auto_refresh
    user_id,       \* self.user_id (NoUser while the attribute is not set)
    pre_token,     \* credential held when the current invocation started
    container_id,  \* post_thread local
    status,        \* post_thread local
    wait_secs,     \* post_thread local
    ret,           \* value returned by the last completed invocation
    error,         \* exception raised to the caller by the last invocation
    log,           \* remote calls and sleeps of the current invocation, in order
    args,          \* arguments of the current invocation
    refreshed,     \* access token stored by the last successful refresh
    t2pc,          \* position of a second thread that calls refresh_access_token
    reqparams      \* credential put into params by an operation that has not yet
                   \* reached _request

vars == <<pc, op, auth_token, auto_refresh, user_id, pre_token,
          container_id, status, wait_secs, ret, error, log,
          args, refreshed, t2pc, reqparams>>

\* the state of the two-thread runs; the single-threaded steps leave it alone
threadvars == <<t2pc, reqparams>>

-----------------------------------------------------------------------------
(* Bounds and input sets *)

MaxBody == 2        \* longest error body / transport message, in words
MaxRefreshes == 2   \* refreshes of the second thread during one operation

Tokens == {"tokA", "tokB"}
UserIds == {"u1", "u2"}
ContainerIds == {"123", "124"}
PostIds == {"456", "457"}
Texts == {"hello"}
None == "None"
ImageUrls == {None, "http://img"}

\* words an error body or a transport message is made of
Words == {"401", "expired", "Expired", "OAuthException", "msg"}

RECURSIVE SeqsUpTo(_, _)
SeqsUpTo(S, n) ==
    IF n = 0 THEN {<<>>}
    ELSE LET shorter == SeqsUpTo(S, n - 1)
         IN  shorter \cup {Append(s, w) : s \in shorter, w \in S}

Bodies == SeqsUpTo(Words, MaxBody)

NoJson == [k \in {} |-> ""]
NoUser == "NoUser"
NoContainer == "NoContainer"
NoStatus == "NoStatus"
NoToken == "NoToken"
Idle == [pc |-> "idle", sent |-> NoToken]
MediaIds == {"m1"}
NoError == [kind |-> "none", text |-> <<>>]

-----------------------------------------------------------------------------
(* Responses of the remote system as the requests library presents them.   *)
(* kind "transport": requests raised (no response); body is the message.   *)
(* kind "http": a response with status code, body text (error responses),  *)
(* and parsed JSON (parses = FALSE: the body is not JSON).                  *)

TransportFailure(msg) ==
    [kind |-> "transport", code |-> 0, body |-> msg, parses |-> FALSE, json |-> NoJson]
HttpError(code, body) ==
    [kind |-> "http", code |-> code, body |-> body, parses |-> TRUE, json |-> NoJson]
HttpOk(json) ==
    [kind |-> "http", code |-> 200, body |-> <<>>, parses |-> TRUE, json |-> json]
HttpNotJson ==
    [kind |-> "http", code |-> 200, body |-> <<"msg">>, parses |-> FALSE, json |-> NoJson]

ErrorCodes == {400, 401, 500}

\* every failure within the bounds: the first identity probe draws from these
Failures ==
    {TransportFailure(b) : b \in Bodies}
    \cup {HttpError(c, b) : c \in ErrorCodes, b \in Bodies}

\* representative failures for the requests whose error text is only propagated
SampleFailures ==
    { TransportFailure(<<"msg">>),
      HttpError(401, <<"OAuthException", "expired">>),
      HttpError(500, <<"msg">>),
      HttpNotJson }

ProfileResponses ==
    {HttpOk([id |-> u, username |-> "name"]) : u \in UserIds}
    \cup {HttpOk([username |-> "name"])}

RefreshResponses ==
    {HttpOk([access_token |-> t, token_type |-> "bearer"]) : t \in Tokens}
    \cup {HttpOk([token_type |-> "bearer"])}

CreateResponses == {HttpOk([id |-> c]) : c \in ContainerIds}

Statuses == {"IN_PROGRESS", "FINISHED", "PUBLISHED", "ERROR", "EXPIRED", "UNKNOWN"}

StatusResponses ==
    {HttpOk([id |-> "c", status |-> s]) : s \in Statuses \cup {"PROCESSING"}}
    \cup {HttpOk([id |-> "c"])}

PublishResponses == {HttpOk([id |-> p]) : p \in PostIds}

ThreadResponses == {HttpOk([data |-> "posts"])}

-----------------------------------------------------------------------------
(* Text helpers *)

Contains(text, word) == \E i \in 1..Len(text) : text[i] = word

\* str.lower() on one word
LowerWord(w) ==
    CASE w = "Expired" -> "expired"
      [] w = "OAuthException" -> "oauthexception"
      [] w = "HTTPError" -> "httperror"
      [] w = "KeyError" -> "keyerror"
      [] OTHER -> w

Lower(text) == [i \in 1..Len(text) |-> LowerWord(text[i])]

base_url_v1 == "https://graph.threads.net/v1.0"
refresh_url == "https://graph.threads.net/refresh_access_token"

-----------------------------------------------------------------------------
(* _request: what it returns or raises for a response *)

\* response.raise_for_status(): raises for 4xx and 5xx
RaisesForStatus(resp) == resp.code >= 400 /\ resp.code < 600

Raised(kind, text) == [ok |-> FALSE, value |-> NoJson, err |-> [kind |-> kind, text |-> text]]
Returned(json) == [ok |-> TRUE, value |-> json, err |-> NoError]

request(url, resp) ==
    IF resp.kind = "transport"
    THEN Raised("Exception", resp.body)
    ELSE IF RaisesForStatus(resp)
    THEN Raised("Exception",
                <<"HTTPError", ToString(resp.code), "for">> \o url \o <<":">> \o resp.body)
    ELSE IF ~resp.parses
    THEN Raised("JSONDecodeError", <<"Expecting", "value">>)
    ELSE Returned(resp.json)

\* subscript d[key] of a returned dict
GetItem(out, key) ==
    IF ~out.ok THEN out
    ELSE IF key \in DOMAIN out.value THEN out
    ELSE Raised("KeyError", <<key>>)

-----------------------------------------------------------------------------
(* The log of remote calls *)

NoResponse == [kind |-> "none", code |-> 0, body |-> <<>>, parses |-> FALSE, json |-> NoJson]

\* the places of a request that carry the credential
\* a GET through _request: access_token in params, Bearer token in the header
QueryAndBearer(ptoken, htoken) == [query |-> ptoken, header |-> htoken]
\* a form POST through _request: access_token among the form fields
FormField(token) == [form |-> token]
\* the GET of refresh_access_token: access_token in params
QueryOnly(token) == [query |-> token]
NoCreds == [k \in {} |-> ""]

\* one remote call: the operation, the credential in each place of the
\* request, its payload and the response it got
Call(name, creds, data, resp) == [op |-> name, creds |-> creds, data |-> data, res |-> resp]

Count(name) == Cardinality({i \in 1..Len(log) : log[i].op = name})

-----------------------------------------------------------------------------
(* retrieve_profiles, refresh_access_token *)

retrieve_profiles(resp) == request(<<base_url_v1, "/me">>, resp)

\* refresh_access_token without the assignment of line 103
refresh_access_token_KeepsToken(token, resp) ==
    IF resp.kind = "transport"
    THEN [token |-> token,
          out |-> Raised("Exception", <<"Failed to refresh token:">> \o resp.body)]
    ELSE IF resp.code >= 400 /\ resp.code < 600
    THEN [token |-> token,
          out |-> Raised("Exception",
                         <<"Failed to refresh token - HTTPError", ToString(resp.code), ":">>
                             \o resp.body)]
    ELSE IF ~resp.parses \/ "access_token" \notin DOMAIN resp.json
    THEN [token |-> token,
          out |-> Raised("Exception", <<"Failed to refresh token:", "access_token">>)]
    ELSE [token |-> token, out |-> Returned(resp.json)]

\* refresh_access_token: the credential after the call and what it returns
\* or raises
refresh_access_token(token, resp) ==
    IF resp.kind = "transport"
    THEN [token |-> token,
          out |-> Raised("Exception", <<"Failed to refresh token:">> \o resp.body)]
    ELSE IF RaisesForStatus(resp)
    THEN [token |-> token,
          out |-> Raised("Exception",
                         <<"Failed to refresh token - HTTPError", ToString(resp.code), ":">>
                             \o resp.body)]
    ELSE IF ~resp.parses
    THEN [token |-> token,
          out |-> Raised("Exception", <<"Failed to refresh token:", "Expecting", "value">>)]
    ELSE IF "access_token" \notin DOMAIN resp.json
    THEN [token |-> token,
          out |-> Raised("Exception", <<"Failed to refresh token:", "access_token">>)]
    ELSE [token |-> resp.json.access_token, out |-> Returned(resp.json)]

-----------------------------------------------------------------------------
(* __init__ *)

\* line 18 requiring both markers
IsTokenExpiredError_BothMarkers(error_str) ==
    /\ Contains(error_str, "401")
    /\ Contains(Lower(error_str), "expired")
    /\ Contains(error_str, "OAuthException")

\* the test of line 18 on str(e)
IsTokenExpiredError(error_str) ==
    /\ Contains(error_str, "401")
    /\ \/ Contains(Lower(error_str), "expired")
       \/ Contains(error_str, "OAuthException")

\* the except block without the test of auto_refresh
OnProbeFailure_IgnoresAutoRefresh(error_str, auto) ==
    IF IsTokenExpiredError(error_str) THEN "refresh" ELSE "reraise"

\* the except block of __init__: what is done with a failure of the first probe
OnProbeFailure(error_str, auto) ==
    IF IsTokenExpiredError(error_str)
    THEN IF auto THEN "refresh" ELSE "raise_expired"
    ELSE "reraise"

Init ==
    /\ pc = "ctor"
    /\ op = "ctor"
    /\ auth_token \in Tokens
    /\ auto_refresh \in BOOLEAN
    /\ user_id = NoUser
    /\ pre_token = auth_token
    /\ container_id = NoContainer
    /\ status = NoStatus
    /\ wait_secs = 0
    /\ ret = NoJson
    /\ error = NoError
    /\ log = <<>>
    /\ args = NoJson
    /\ refreshed = NoToken
    /\ t2pc = Idle
    /\ reqparams = NoToken

\* lines 13-26 up to the refresh: the first identity probe and its handler
CtorProbe ==
    /\ pc = "ctor"
    /\ \E resp \in ProfileResponses \cup Failures \cup {HttpNotJson} :
         LET out == GetItem(retrieve_profiles(resp), "id")
             todo == OnProbeFailure(out.err.text, auto_refresh)
         IN  /\ log' = Append(log, Call("probe", QueryAndBearer(auth_token, auth_token), NoJson, resp))
             /\ IF out.ok
                THEN /\ user_id' = out.value.id
                     /\ pc' = "ready"
                     /\ error' = NoError
                ELSE /\ user_id' = user_id
                     /\ pc' = IF todo = "refresh" THEN "ctor_refresh" ELSE "ctor_failed"
                     /\ error' =
                          CASE todo = "refresh" -> NoError
                            [] todo = "raise_expired" ->
                                 [kind |-> "Exception",
                                  text |-> <<"Access token expired. Please refresh manually:">>
                                              \o out.err.text]
                            [] OTHER -> out.err
    /\ UNCHANGED <<threadvars, args, refreshed, op, auth_token, auto_refresh, pre_token, container_id, status,
                   wait_secs, ret>>

\* line 21 with a failure of the refresh swallowed
CtorRefresh_IgnoresFailure ==
    /\ pc = "ctor_refresh"
    /\ \E resp \in RefreshResponses \cup SampleFailures :
         LET r == refresh_access_token(auth_token, resp)
         IN  /\ log' = Append(log, Call("refresh", QueryOnly(auth_token), NoJson, resp))
             /\ auth_token' = r.token
             /\ pc' = "ctor_reprobe"
             /\ error' = NoError
             /\ refreshed' = IF r.out.ok THEN r.token ELSE refreshed
    /\ UNCHANGED <<threadvars, args, op, auto_refresh, user_id, pre_token, container_id,
                   status, wait_secs, ret>>

\* line 21
CtorRefresh ==
    /\ pc = "ctor_refresh"
    /\ \E resp \in RefreshResponses \cup SampleFailures :
         LET r == refresh_access_token(auth_token, resp)
         IN  /\ log' = Append(log, Call("refresh", QueryOnly(auth_token), NoJson, resp))
             /\ auth_token' = r.token
             /\ pc' = IF r.out.ok THEN "ctor_reprobe" ELSE "ctor_failed"
             /\ error' = r.out.err
             /\ refreshed' = IF r.out.ok THEN r.token ELSE refreshed
    /\ UNCHANGED <<threadvars, args, op, auto_refresh, user_id, pre_token, container_id, status,
                   wait_secs, ret>>

\* line 22 with the expiry handling applied again to the second probe
CtorReprobe_RetriesAgain ==
    /\ pc = "ctor_reprobe"
    /\ \E resp \in ProfileResponses \cup SampleFailures :
         LET out == GetItem(retrieve_profiles(resp), "id")
             again == ~out.ok /\ OnProbeFailure(out.err.text, auto_refresh) = "refresh"
         IN  /\ log' = Append(log, Call("probe", QueryAndBearer(auth_token, auth_token), NoJson, resp))
             /\ user_id' = IF out.ok THEN out.value.id ELSE user_id
             /\ pc' = IF out.ok THEN "ready"
                      ELSE IF again THEN "ctor_refresh" ELSE "ctor_failed"
             /\ error' = IF again THEN NoError ELSE out.err
    /\ UNCHANGED <<threadvars, args, refreshed, op, auth_token, auto_refresh, pre_token, container_id, status,
                   wait_secs, ret>>

\* line 22 sending params that were built before the refresh
CtorReprobe_StaleCredential ==
    /\ pc = "ctor_reprobe"
    /\ \E resp \in ProfileResponses \cup SampleFailures :
         LET out == GetItem(retrieve_profiles(resp), "id")
         IN  /\ log' = Append(log, Call("probe", QueryAndBearer(pre_token, auth_token),
                                         NoJson, resp))
             /\ user_id' = IF out.ok THEN out.value.id ELSE user_id
             /\ pc' = IF out.ok THEN "ready" ELSE "ctor_failed"
             /\ error' = out.err
    /\ UNCHANGED <<threadvars, args, refreshed, op, auth_token, auto_refresh, pre_token,
                   container_id, status, wait_secs, ret>>

\* line 22
CtorReprobe ==
    /\ pc = "ctor_reprobe"
    /\ \E resp \in ProfileResponses \cup SampleFailures :
         LET out == GetItem(retrieve_profiles(resp), "id")
         IN  /\ log' = Append(log, Call("probe", QueryAndBearer(auth_token, auth_token), NoJson, resp))
             /\ user_id' = IF out.ok THEN out.value.id ELSE user_id
             /\ pc' = IF out.ok THEN "ready" ELSE "ctor_failed"
             /\ error' = out.err
    /\ UNCHANGED <<threadvars, args, refreshed, op, auth_token, auto_refresh, pre_token, container_id, status,
                   wait_secs, ret>>

-----------------------------------------------------------------------------
(* refresh_access_token called by the user of a constructed client *)

RefreshAccessToken ==
    /\ pc = "ready"
    /\ \E resp \in RefreshResponses \cup SampleFailures :
         LET r == refresh_access_token(auth_token, resp)
         IN  /\ log' = <<Call("refresh", QueryOnly(auth_token), NoJson, resp)>>
             /\ auth_token' = r.token
             /\ ret' = r.out.value
             /\ error' = r.out.err
             /\ refreshed' = IF r.out.ok THEN r.token ELSE refreshed
    /\ op' = "refresh_access_token"
    /\ args' = NoJson
    /\ pre_token' = auth_token
    /\ pc' = "ready"
    /\ container_id' = NoContainer
    /\ status' = NoStatus
    /\ wait_secs' = 0
    /\ UNCHANGED <<threadvars, auto_refresh, user_id>>

-----------------------------------------------------------------------------
(* create_thread, get_container_status, publish_thread *)

\* the form data with the media type left at TEXT
create_data_AlwaysText(text, image_url) ==
    IF image_url # None
    THEN [text |-> text, media_type |-> "TEXT", image_url |-> image_url]
    ELSE [text |-> text, media_type |-> "TEXT"]

\* the form data create_thread builds
create_data(text, image_url) ==
    IF image_url # None
    THEN [text |-> text, media_type |-> "IMAGE", image_url |-> image_url]
    ELSE [text |-> text, media_type |-> "TEXT"]

create_thread(uid, resp) == request(<<base_url_v1, "/", uid, "/threads">>, resp)

publish_thread(uid, resp) == request(<<base_url_v1, "/", uid, "/threads_publish">>, resp)

\* resp.get('status', 'UNKNOWN') on the returned dict
get_container_status(cid, resp) ==
    LET out == request(<<base_url_v1, "/", cid>>, resp)
    IN  IF ~out.ok THEN [ok |-> FALSE, status |-> NoStatus, err |-> out.err]
        ELSE [ok |-> TRUE,
              status |-> IF "status" \in DOMAIN out.value THEN out.value.status
                         ELSE "UNKNOWN",
              err |-> NoError]

-----------------------------------------------------------------------------
(* post_thread *)

max_wait == 60
interval == 5

\* the ceiling test taken inclusively
LoopCond_Inclusive(st, waited) == st \in {"IN_PROGRESS"} /\ waited <= max_wait

\* the loop also waiting on UNKNOWN
LoopCond_AlsoUnknown(st, waited) == st \in {"IN_PROGRESS", "UNKNOWN"} /\ waited < max_wait

\* the condition of the while loop, line 163
LoopCond(st, waited) == st \in {"IN_PROGRESS"} /\ waited < max_wait

\* variants of the test of line 169
NotPublishable_AlsoFinished(st) == st \in {"ERROR", "EXPIRED", "FINISHED"}
NotPublishable_ErrorOnly(st) == st \in {"ERROR"}
NotPublishable_AlsoInProgress(st) == st \in {"ERROR", "EXPIRED", "IN_PROGRESS"}

\* the test of line 169
NotPublishable(st) == st \in {"ERROR", "EXPIRED"}

\* lines 155-156: the call of post_thread, create_thread and thread['id']
PostThread ==
    /\ pc = "ready"
    /\ \E text \in Texts, image_url \in ImageUrls,
          resp \in CreateResponses \cup {HttpOk([ok |-> "true"])} \cup SampleFailures :
         LET out == GetItem(create_thread(user_id, resp), "id")
         IN  /\ log' = <<Call("create", FormField(auth_token), create_data(text, image_url), resp)>>
             /\ container_id' = IF out.ok THEN out.value.id ELSE NoContainer
             /\ pc' = IF out.ok THEN "pt_poll" ELSE "ready"
             /\ error' = out.err
             /\ args' = [text |-> text, image_url |-> image_url]
    /\ op' = "post_thread"
    /\ pre_token' = auth_token
    /\ status' = NoStatus
    /\ wait_secs' = 0
    /\ ret' = NoJson
    /\ UNCHANGED <<threadvars, refreshed, auth_token, auto_refresh, user_id>>

\* lines 159-162: the first status poll
FirstPoll ==
    /\ pc = "pt_poll"
    /\ \E resp \in StatusResponses \cup SampleFailures :
         LET r == get_container_status(container_id, resp)
         IN  /\ log' = Append(log, Call("status", QueryAndBearer(auth_token, auth_token), [container |-> container_id], resp))
             /\ status' = r.status
             /\ pc' = IF r.ok THEN "pt_loop" ELSE "ready"
             /\ error' = r.err
    /\ wait_secs' = 0
    /\ UNCHANGED <<threadvars, args, refreshed, op, auth_token, auto_refresh, user_id, pre_token, container_id, ret>>

\* lines 163-167 with a failed poll swallowed and polled again
LoopIteration_RetriesFailedPoll ==
    /\ pc = "pt_loop"
    /\ LoopCond(status, wait_secs)
    /\ wait_secs' = wait_secs + interval
    /\ \E resp \in StatusResponses \cup SampleFailures :
         LET r == get_container_status(container_id, resp)
         IN  /\ log' = log \o << Call("sleep", NoCreds, [secs |-> interval], NoResponse),
                                 Call("status", QueryAndBearer(auth_token, auth_token),
                                      [container |-> container_id], resp) >>
             /\ status' = IF r.ok THEN r.status ELSE status
             /\ pc' = "pt_loop"
             /\ error' = NoError
    /\ UNCHANGED <<threadvars, args, refreshed, op, auth_token, auto_refresh, user_id,
                   pre_token, container_id, ret>>

\* lines 163-167: one iteration of the loop: sleep, count the wait, poll again
LoopIteration ==
    /\ pc = "pt_loop"
    /\ LoopCond(status, wait_secs)
    /\ wait_secs' = wait_secs + interval
    /\ \E resp \in StatusResponses \cup SampleFailures :
         LET r == get_container_status(container_id, resp)
         IN  /\ log' = log \o << Call("sleep", NoCreds, [secs |-> interval], NoResponse),
                                 Call("status", QueryAndBearer(auth_token, auth_token), [container |-> container_id], resp) >>
             /\ status' = r.status
             /\ pc' = IF r.ok THEN "pt_loop" ELSE "ready"
             /\ error' = r.err
    /\ UNCHANGED <<threadvars, args, refreshed, op, auth_token, auto_refresh, user_id, pre_token, container_id, ret>>

\* lines 163, 169-170: the loop ends; an unpublishable status is raised
LoopExit ==
    /\ pc = "pt_loop"
    /\ ~LoopCond(status, wait_secs)
    /\ IF NotPublishable(status)
       THEN /\ pc' = "ready"
            /\ error' = [kind |-> "Exception",
                         text |-> <<"Threads container not publishable: status=", status>>]
       ELSE /\ pc' = "pt_publish"
            /\ error' = error
    /\ UNCHANGED <<threadvars, args, refreshed, op, auth_token, auto_refresh, user_id, pre_token, container_id,
                   status, wait_secs, ret, log>>

\* line 172 returning the created thread instead of the publish result
Publish_ReturnsContainer ==
    /\ pc = "pt_publish"
    /\ \E resp \in PublishResponses \cup SampleFailures :
         LET out == publish_thread(user_id, resp)
         IN  /\ log' = Append(log, Call("publish", FormField(auth_token),
                                         [creation_id |-> container_id], resp))
             /\ ret' = IF out.ok THEN [id |-> container_id] ELSE NoJson
             /\ error' = out.err
    /\ pc' = "ready"
    /\ UNCHANGED <<threadvars, args, refreshed, op, auth_token, auto_refresh, user_id,
                   pre_token, container_id, status, wait_secs>>

\* line 172
Publish ==
    /\ pc = "pt_publish"
    /\ \E resp \in PublishResponses \cup SampleFailures :
         LET out == publish_thread(user_id, resp)
         IN  /\ log' = Append(log, Call("publish", FormField(auth_token),
                                         [creation_id |-> container_id], resp))
             /\ ret' = out.value
             /\ error' = out.err
    /\ pc' = "ready"
    /\ UNCHANGED <<threadvars, args, refreshed, op, auth_token, auto_refresh, user_id, pre_token, container_id,
                   status, wait_secs>>

-----------------------------------------------------------------------------
(* The other public operations, called on a constructed client *)

retrieve_thread(resp) == request(<<base_url_v1, "/me/threads">>, resp)

\* what every call of a public operation sets
StartOf(name, a) ==
    /\ pc = "ready"
    /\ pc' = "ready"
    /\ op' = name
    /\ args' = a
    /\ pre_token' = auth_token
    /\ wait_secs' = 0
    /\ UNCHANGED <<threadvars, refreshed, auth_token, auto_refresh, user_id>>

\* lines 119-142
RetrieveProfiles ==
    /\ StartOf("retrieve_profiles", NoJson)
    /\ \E resp \in ProfileResponses \cup SampleFailures :
         LET out == retrieve_profiles(resp)
         IN  /\ log' = <<Call("probe", QueryAndBearer(auth_token, auth_token), NoJson, resp)>>
             /\ ret' = out.value
             /\ error' = out.err
    /\ container_id' = NoContainer
    /\ status' = NoStatus

\* lines 238-274 with the constructor's refresh-on-expiry applied to the call
RetrieveThread_RefreshesOnExpiry ==
    \E media_id \in MediaIds, resp \in ThreadResponses \cup SampleFailures,
       fresh \in RefreshResponses :
        LET out == retrieve_thread(resp)
            expired == ~out.ok /\ IsTokenExpiredError(out.err.text)
            r == refresh_access_token(auth_token, fresh)
            call == Call("read", QueryAndBearer(auth_token, auth_token),
                         [id |-> media_id], resp)
        IN  /\ pc = "ready"
            /\ pc' = "ready"
            /\ op' = "retrieve_thread"
            /\ args' = [media_id |-> media_id]
            /\ pre_token' = auth_token
            /\ wait_secs' = 0
            /\ container_id' = NoContainer
            /\ status' = NoStatus
            /\ ret' = out.value
            /\ error' = out.err
            /\ log' = IF expired
                      THEN <<call, Call("refresh", QueryOnly(auth_token), NoJson, fresh)>>
                      ELSE <<call>>
            /\ auth_token' = IF expired THEN r.token ELSE auth_token
            /\ refreshed' = IF expired /\ r.out.ok THEN r.token ELSE refreshed
            /\ UNCHANGED <<threadvars, auto_refresh, user_id>>

\* lines 238-274
RetrieveThread ==
    \E media_id \in MediaIds :
        /\ StartOf("retrieve_thread", [media_id |-> media_id])
        /\ \E resp \in ThreadResponses \cup SampleFailures :
             LET out == retrieve_thread(resp)
             IN  /\ log' = <<Call("read", QueryAndBearer(auth_token, auth_token),
                                  [id |-> media_id], resp)>>
                 /\ ret' = out.value
                 /\ error' = out.err
        /\ container_id' = NoContainer
        /\ status' = NoStatus

\* lines 174-203
CreateThread ==
    \E text \in Texts, image_url \in ImageUrls :
        /\ StartOf("create_thread", [text |-> text, image_url |-> image_url])
        /\ \E resp \in CreateResponses \cup SampleFailures :
             LET out == create_thread(user_id, resp)
             IN  /\ log' = <<Call("create", FormField(auth_token),
                                  create_data(text, image_url), resp)>>
                 /\ ret' = out.value
                 /\ error' = out.err
        /\ container_id' = NoContainer
        /\ status' = NoStatus

\* lines 225-236; status holds the returned value
GetContainerStatus ==
    \E cid \in ContainerIds :
        /\ StartOf("get_container_status", [container_id |-> cid])
        /\ \E resp \in StatusResponses \cup SampleFailures :
             LET r == get_container_status(cid, resp)
             IN  /\ log' = <<Call("status", QueryAndBearer(auth_token, auth_token),
                                  [container |-> cid], resp)>>
                 /\ status' = r.status
                 /\ error' = r.err
        /\ container_id' = cid
        /\ ret' = NoJson

\* lines 205-223
PublishThread ==
    \E cid \in ContainerIds :
        /\ StartOf("publish_thread", [thread_id |-> cid])
        /\ \E resp \in PublishResponses \cup SampleFailures :
             LET out == publish_thread(user_id, resp)
             IN  /\ log' = <<Call("publish", FormField(auth_token),
                                  [creation_id |-> cid], resp)>>
                 /\ ret' = out.value
                 /\ error' = out.err
        /\ container_id' = cid
        /\ status' = NoStatus

-----------------------------------------------------------------------------
(* Two threads on one client: one calls an operation, the other calls       *)
(* refresh_access_token.  The steps are the reads and writes of             *)
(* self.auth_token, each of which is atomic.                                *)

GetOps == {"probe", "status", "read"}
PostOps == {"create", "publish"}

UrlOf(name) ==
    CASE name = "probe" -> <<base_url_v1, "/me">>
      [] name = "read" -> <<base_url_v1, "/me/threads">>
      [] name = "status" -> <<base_url_v1, "/", "123">>
      [] name = "create" -> <<base_url_v1, "/", user_id, "/threads">>
      [] OTHER -> <<base_url_v1, "/", user_id, "/threads_publish">>

\* lines 133-136, 234, 269-273: a GET operation puts the credential in params
BeginGet ==
    /\ pc = "ready"
    /\ \E name \in GetOps : op' = name
    /\ reqparams' = auth_token
    /\ pc' = "in_request"
    /\ pre_token' = auth_token
    /\ log' = <<>>
    /\ args' = NoJson
    /\ ret' = NoJson
    /\ error' = NoError
    /\ container_id' = NoContainer
    /\ status' = NoStatus
    /\ wait_secs' = 0
    /\ UNCHANGED <<t2pc, refreshed, auth_token, auto_refresh, user_id>>

\* lines 189-203, 216-223: a form operation passes no params
BeginPost ==
    /\ pc = "ready"
    /\ \E name \in PostOps : op' = name
    /\ reqparams' = NoToken
    /\ pc' = "in_request"
    /\ pre_token' = auth_token
    /\ log' = <<>>
    /\ args' = NoJson
    /\ ret' = NoJson
    /\ error' = NoError
    /\ container_id' = NoContainer
    /\ status' = NoStatus
    /\ wait_secs' = 0
    /\ UNCHANGED <<t2pc, refreshed, auth_token, auto_refresh, user_id>>

\* lines 33-75: _request reads the credential for the header or the form
\* field and sends the request
SendRequest ==
    /\ pc = "in_request"
    /\ \E resp \in {HttpOk([id |-> "x"])} \cup SampleFailures :
         LET out == request(UrlOf(op), resp)
             creds == IF op \in GetOps THEN QueryAndBearer(reqparams, auth_token)
                      ELSE FormField(auth_token)
         IN  /\ log' = Append(log, Call(op, creds, NoJson, resp))
             /\ ret' = out.value
             /\ error' = out.err
    /\ pc' = "ready"
    /\ reqparams' = NoToken
    /\ UNCHANGED <<t2pc, args, refreshed, op, auth_token, auto_refresh, user_id,
                   pre_token, container_id, status, wait_secs>>

\* lines 92-98: the second thread reads the credential and sends the refresh
RefreshStart ==
    /\ pc \in {"ready", "in_request"}
    /\ t2pc.pc = "idle"
    /\ Count("refresh") < MaxRefreshes
    /\ t2pc' = [pc |-> "waiting", sent |-> auth_token]
    /\ UNCHANGED <<reqparams, args, refreshed, pc, op, auth_token, auto_refresh,
                   user_id, pre_token, container_id, status, wait_secs, ret, error, log>>

\* lines 99-117: the response of the refresh arrives; line 103 stores the token
RefreshFinish ==
    /\ t2pc.pc = "waiting"
    /\ \E resp \in RefreshResponses \cup SampleFailures :
         LET r == refresh_access_token(auth_token, resp)
         IN  /\ log' = Append(log, Call("refresh", QueryOnly(t2pc.sent), NoJson, resp))
             /\ auth_token' = r.token
             /\ refreshed' = IF r.out.ok THEN r.token ELSE refreshed
    /\ t2pc' = Idle
    /\ UNCHANGED <<reqparams, args, pc, op, auto_refresh, user_id, pre_token,
                   container_id, status, wait_secs, ret, error>>

-----------------------------------------------------------------------------

Next ==
    \/ CtorProbe
    \/ CtorRefresh
    \/ CtorReprobe
    \/ RefreshAccessToken
    \/ RetrieveProfiles
    \/ RetrieveThread
    \/ CreateThread
    \/ GetContainerStatus
    \/ PublishThread
    \/ PostThread
    \/ FirstPoll
    \/ LoopIteration
    \/ LoopExit
    \/ Publish

Spec == Init /\ [][Next]_vars

\* every call returns: a step that is possible is eventually taken
FairSpec == Spec /\ WF_vars(Next)

\* a constructed client used by two threads
ConcNext ==
    \/ CtorProbe
    \/ CtorRefresh
    \/ CtorReprobe
    \/ BeginGet
    \/ BeginPost
    \/ SendRequest
    \/ RefreshStart
    \/ RefreshFinish

ConcSpec == Init /\ [][ConcNext]_vars

-----------------------------------------------------------------------------
(* Vocabulary of the properties *)

Last(s) == s[Len(s)]

IsPoll(e) == e.op = "status"
Polls == SelectSeq(log, IsPoll)

\* a status poll that returned the status st
PollReturned(e, st) ==
    /\ e.res.kind = "http" /\ e.res.code = 200 /\ e.res.parses
    /\ "status" \in DOMAIN e.res.json
    /\ e.res.json.status = st

\* the polls so far returned IN_PROGRESS any number of times and then st
PolledInProgressThen(st) ==
    /\ op = "post_thread"
    /\ Len(Polls) >= 1
    /\ \A i \in 1..(Len(Polls) - 1) : PollReturned(Polls[i], "IN_PROGRESS")
    /\ PollReturned(Last(Polls), st)

NoPollAfterPublish ==
    \A i, j \in 1..Len(log) : (i < j /\ log[i].op = "publish") => log[j].op # "status"

\* a successful response carrying the field key
OkWith(resp, key) ==
    /\ resp.kind = "http" /\ resp.code >= 200 /\ resp.code < 300 /\ resp.parses
    /\ key \in DOMAIN resp.json

\* the 401+expired signature: HTTP status 401 and an expired/OAuthException
\* marker in the error body
HasExpiryMarker(body) ==
    \E i \in 1..Len(body) : LowerWord(body[i]) = "expired" \/ body[i] = "OAuthException"

Signature401Expired(resp) ==
    resp.kind = "http" /\ resp.code = 401 /\ HasExpiryMarker(resp.body)

FirstProbeFailedExpired ==
    op = "ctor" /\ Len(log) >= 1 /\ Signature401Expired(log[1].res)

-----------------------------------------------------------------------------
(* C1: when the status polls return IN_PROGRESS k times (0 <= k <= 12) and  *)
(* then FINISHED, post_thread calls publish_thread exactly once, after the  *)
(* last status poll, and issues no status poll after it.                    *)
C1_PublishOnceAfterFinished ==
    PolledInProgressThen("FINISHED") =>
        /\ Len(Polls) <= 13
        /\ pc \in {"pt_loop", "pt_publish", "ready"}
        /\ pc # "ready" => Count("publish") = 0
        /\ pc = "ready" =>
             /\ Count("publish") = 1
             /\ Last(log).op = "publish"
             /\ log[Len(log) - 1] = Last(Polls)
        /\ NoPollAfterPublish

C1_Witness ==
    /\ PolledInProgressThen("FINISHED")
    /\ Len(Polls) = 13
    /\ pc = "ready"
    /\ Count("publish") = 1
    /\ error = NoError

(* C2: when the status that ends the poll loop is ERROR or EXPIRED, after   *)
(* any number of IN_PROGRESS results, post_thread raises the "not           *)
(* publishable" error carrying that status and never calls publish_thread.  *)
C2_UnpublishableRaises ==
    \A st \in {"ERROR", "EXPIRED"} :
        PolledInProgressThen(st) =>
            /\ Count("publish") = 0
            /\ pc \in {"pt_loop", "ready"}
            /\ pc = "ready" =>
                 error = [kind |-> "Exception",
                          text |-> <<"Threads container not publishable: status=", st>>]

C2_Witness ==
    /\ PolledInProgressThen("EXPIRED")
    /\ Len(Polls) > 1
    /\ pc = "ready"
    /\ error.text = <<"Threads container not publishable: status=", "EXPIRED">>

(* C3: publish_thread is called only when the last observed status is       *)
(* FINISHED or PUBLISHED, never while it is IN_PROGRESS or UNKNOWN.         *)
C3_PublishOnlyWhenFinished ==
    (op = "post_thread" /\ (pc = "pt_publish" \/ Count("publish") > 0)) =>
        status \in {"FINISHED", "PUBLISHED"}

(* C4: the poll loop terminates whatever the remote returns: with the       *)
(* status still IN_PROGRESS it is left once the wait reaches the ceiling,   *)
(* the wait never exceeds the ceiling by more than one interval, and one    *)
(* invocation issues at most 12 sleeps and at most 13 status polls.         *)
C4_PollLoopTerminates ==
    /\ [](op = "post_thread" =>
            /\ wait_secs <= max_wait + interval
            /\ Count("sleep") <= 12
            /\ Count("status") <= 13
            /\ Count("sleep") * interval = wait_secs)
    /\ [][(pc = "pt_loop" /\ status = "IN_PROGRESS" /\ wait_secs >= max_wait)
            => pc' # "pt_loop"]_vars
    /\ ((pc \in {"pt_poll", "pt_loop"}) ~> (pc \notin {"pt_poll", "pt_loop"}))

C4_Witness ==
    /\ op = "post_thread"
    /\ pc = "pt_publish"
    /\ status = "IN_PROGRESS"
    /\ wait_secs = max_wait
    /\ Count("sleep") = 12
    /\ Count("status") = 13

(* C5: when the loop is left at the wait ceiling with the status still      *)
(* IN_PROGRESS, post_thread raises no timeout error: it calls               *)
(* publish_thread exactly once on the container and returns what that call  *)
(* returns or raises what it raises.                                        *)
C5_TimeoutFallsThroughToPublish ==
    (op = "post_thread" /\ status = "IN_PROGRESS" /\ wait_secs >= max_wait) =>
        /\ pc \in {"pt_loop", "pt_publish", "ready"}
        /\ pc # "ready" => Count("publish") = 0
        /\ pc = "ready" =>
             /\ Count("publish") = 1
             /\ Last(log).op = "publish"
             /\ Last(log).data = [creation_id |-> container_id]
             /\ IF OkWith(Last(log).res, "id")
                THEN ret = Last(log).res.json /\ error = NoError
                ELSE /\ ret = NoJson
                     /\ error = publish_thread(user_id, Last(log).res).err
                     /\ error # NoError

C5_Witness ==
    /\ op = "post_thread"
    /\ status = "IN_PROGRESS"
    /\ wait_secs >= max_wait
    /\ pc = "ready"
    /\ ret \in {[id |-> p] : p \in PostIds}

(* C6: with auto-refresh enabled, when the first identity probe fails with  *)
(* the 401+expired signature and the probe succeeds when re-run,            *)
(* construction succeeds with the id of the second probe as user_id, after  *)
(* exactly one refresh and exactly two probes.                              *)
C6_RefreshThenRetrySucceeds ==
    (FirstProbeFailedExpired /\ auto_refresh) =>
        /\ pc \in {"ctor_refresh", "ctor_reprobe", "ready", "ctor_failed"}
        /\ pc = "ctor_failed" =>
             /\ Len(log) >= 2
             /\ ~OkWith(Last(log).res, IF Last(log).op = "refresh" THEN "access_token" ELSE "id")
        /\ (Len(log) >= 3 /\ log[3].op = "probe" /\ OkWith(log[3].res, "id")) =>
             /\ pc = "ready"
             /\ user_id = log[3].res.json.id
             /\ error = NoError
        /\ pc = "ready" =>
             /\ Len(log) = 3
             /\ Count("refresh") = 1
             /\ Count("probe") = 2
             /\ log[2].op = "refresh"

C6_Witness ==
    /\ FirstProbeFailedExpired
    /\ auto_refresh
    /\ pc = "ready"
    /\ user_id \in UserIds
    /\ Count("refresh") = 1
    /\ Count("probe") = 2
    /\ auth_token # pre_token

(* C7: with auto-refresh disabled, when the identity probe fails with the   *)
(* 401+expired signature, construction fails with the "access token         *)
(* expired" error, no refresh is called, the probe is not re-run and the    *)
(* credential is unchanged.                                                 *)
C7_NoRefreshWhenDisabled ==
    (FirstProbeFailedExpired /\ ~auto_refresh) =>
        /\ pc = "ctor_failed"
        /\ Len(log) = 1
        /\ Count("refresh") = 0
        /\ Count("probe") = 1
        /\ auth_token = pre_token
        /\ user_id = NoUser
        /\ error.kind = "Exception"
        /\ error.text[1] = "Access token expired. Please refresh manually:"

C7_Witness ==
    /\ FirstProbeFailedExpired
    /\ ~auto_refresh
    /\ pc = "ctor_failed"
    /\ error.text[1] = "Access token expired. Please refresh manually:"

(* C8: refresh_access_token either succeeds, and then the credential is the *)
(* access token of the response and the response is returned, or raises a   *)
(* "failed to refresh" error, and then the credential is what it was before *)
(* the call (transport failure, non-2xx response, 2xx response without an   *)
(* access token).                                                           *)
C8_RefreshReplacesOrKeeps ==
    (Len(log) >= 1 /\ Last(log).op = "refresh") =>
        IF OkWith(Last(log).res, "access_token")
        THEN /\ auth_token = Last(log).res.json.access_token
             /\ error = NoError
             /\ op = "refresh_access_token" => ret = Last(log).res.json
             /\ op = "ctor" => pc = "ctor_reprobe"
        ELSE /\ auth_token = Last(log).creds.query
             /\ auth_token = pre_token
             /\ error.kind = "Exception"
             /\ error.text[1] \in {"Failed to refresh token:",
                                   "Failed to refresh token - HTTPError"}
             /\ op = "refresh_access_token" => ret = NoJson
             /\ op = "ctor" => pc = "ctor_failed"

C8_Witness ==
    /\ op = "refresh_access_token"
    /\ pc = "ready"
    /\ Len(log) = 1
    /\ OkWith(Last(log).res, "access_token")
    /\ auth_token # pre_token
    /\ ret = Last(log).res.json

(* C9: the constructor calls refresh_access_token only when the identity    *)
(* probe failed with HTTP status 401 and an expired/OAuthException marker   *)
(* in the error body; after any other probe failure it calls no refresh,    *)
(* does not re-run the probe and propagates the original failure.           *)
C9_RefreshOnlyOn401Expired ==
    (op = "ctor" /\ Len(log) >= 1 /\ ~OkWith(log[1].res, "id")
       /\ ~Signature401Expired(log[1].res)) =>
        /\ pc = "ctor_failed"
        /\ Len(log) = 1
        /\ error = GetItem(retrieve_profiles(log[1].res), "id").err

(* C10: the refresh-and-retry is one-shot: one construction calls           *)
(* refresh_access_token at most once and runs the probe at most twice; a    *)
(* failure of the second probe, even with the 401+expired signature,        *)
(* propagates with no second refresh and no third probe.                    *)
C10_RefreshRetryIsOneShot ==
    op = "ctor" =>
        /\ Count("refresh") <= 1
        /\ Count("probe") <= 2
        /\ Len(log) <= 3
        /\ (Len(log) = 3 /\ ~OkWith(log[3].res, "id")) =>
             /\ pc = "ctor_failed"
             /\ error = GetItem(retrieve_profiles(log[3].res), "id").err
             /\ user_id = NoUser

C10_Witness ==
    /\ op = "ctor"
    /\ pc = "ctor_failed"
    /\ Len(log) = 3
    /\ Signature401Expired(log[3].res)
    /\ Count("refresh") = 1

-----------------------------------------------------------------------------
(* Vocabulary of the later properties *)

\* every place of the request that carries a credential carries tok
PresentsOnly(e, tok) == \A p \in DOMAIN e.creds : e.creds[p] = tok

RefreshSucceeded(e) == e.op = "refresh" /\ OkWith(e.res, "access_token")

(* C11: after a successful refresh every later request presents the new     *)
(* credential in every place that carries one; the constructor's second     *)
(* probe carries the refreshed credential in its query parameter and in     *)
(* its bearer header.                                                       *)
C11_RequestsPresentRefreshedCredential ==
    /\ \A i \in 1..Len(log) :
         (refreshed # NoToken /\ \A j \in i..Len(log) : ~RefreshSucceeded(log[j]))
             => PresentsOnly(log[i], refreshed)
    /\ \A i, j \in 1..Len(log) :
         (i < j /\ RefreshSucceeded(log[i])
            /\ \A k \in (i + 1)..j : ~RefreshSucceeded(log[k]))
             => PresentsOnly(log[j], log[i].res.json.access_token)
    /\ (op = "ctor" /\ Len(log) = 3) =>
         log[3].creds = [query |-> log[2].res.json.access_token,
                         header |-> log[2].res.json.access_token]

C11_Witness ==
    /\ op = "ctor"
    /\ Len(log) = 3
    /\ RefreshSucceeded(log[2])
    /\ log[3].creds.header # log[1].creds.header
    /\ log[3].creds.query = refreshed

(* C12: when refresh_access_token runs concurrently with another operation, *)
(* every request of that operation carries one credential: the query        *)
(* parameter, the bearer header and the form field hold the same value,     *)
(* the old credential or the new one, never a mixture.                      *)
C12_RequestSeesOneCredential ==
    \A i \in 1..Len(log) :
        \A p, q \in DOMAIN log[i].creds : log[i].creds[p] = log[i].creds[q]

(* C13: an invocation of post_thread whose polling ends in FINISHED polls   *)
(* exactly the container create_thread returned, publishes exactly that     *)
(* container and returns the result of publish_thread unchanged.            *)
C13_PublishesCreatedContainer ==
    (PolledInProgressThen("FINISHED") /\ pc = "ready") =>
        /\ log[1].op = "create"
        /\ OkWith(log[1].res, "id")
        /\ container_id = log[1].res.json.id
        /\ \A i \in 1..Len(log) :
             log[i].op = "status" => log[i].data = [container |-> log[1].res.json.id]
        /\ Last(log).op = "publish"
        /\ Last(log).data = [creation_id |-> log[1].res.json.id]
        /\ (Last(log).res.kind = "http" /\ Last(log).res.code = 200 /\ Last(log).res.parses)
             => (ret = Last(log).res.json /\ error = NoError)

C13_Witness ==
    /\ PolledInProgressThen("FINISHED")
    /\ pc = "ready"
    /\ Len(Polls) >= 2
    /\ log[1].res.json.id = "124"
    /\ Last(log).data = [creation_id |-> "124"]
    /\ ret = [id |-> "457"]

(* C14: get_container_status returns one of the six statuses for every      *)
(* successful status response: a recognized value as it is, a missing or    *)
(* unrecognized value as UNKNOWN.                                           *)
C14_StatusIsOneOfSix ==
    (op = "get_container_status" /\ error = NoError) =>
        /\ status \in Statuses
        /\ status = IF "status" \in DOMAIN Last(log).res.json
                       /\ Last(log).res.json.status \in Statuses
                    THEN Last(log).res.json.status
                    ELSE "UNKNOWN"

(* C15: in post_thread a failure of any remote call ends the invocation at  *)
(* once with that failure: no later poll, no publish, no retry.             *)
C15_FailurePropagatesImmediately ==
    op = "post_thread" =>
        \A i \in 1..Len(log) :
            (log[i].op # "sleep"
               /\ ~(log[i].res.kind = "http" /\ log[i].res.code < 400 /\ log[i].res.parses)) =>
                /\ i = Len(log)
                /\ pc = "ready"
                /\ ret = NoJson
                /\ error.kind # "none"
                /\ error.text[1] # "Threads container not publishable: status="
                /\ log[i].res.kind = "transport" => error.text = log[i].res.body
                /\ (log[i].res.kind = "http" /\ log[i].res.code >= 400) =>
                     (error.text[1] = "HTTPError" /\ error.text[2] = ToString(log[i].res.code))

C15_Witness ==
    /\ op = "post_thread"
    /\ pc = "ready"
    /\ Len(Polls) >= 2
    /\ Last(log).op = "status"
    /\ Last(log).res.kind = "transport"
    /\ error.text = Last(log).res.body

(* C16: create_thread sends media type IMAGE and the image URL when         *)
(* image_url is not None, media type TEXT and no image URL field when it    *)
(* is None, and the text unchanged in both cases.                           *)
C16_CreatePayload ==
    (op \in {"post_thread", "create_thread"} /\ Len(log) >= 1) =>
        /\ log[1].op = "create"
        /\ log[1].data.text = args.text
        /\ IF args.image_url # None
           THEN /\ log[1].data.media_type = "IMAGE"
                /\ "image_url" \in DOMAIN log[1].data
                /\ log[1].data.image_url = args.image_url
           ELSE /\ log[1].data.media_type = "TEXT"
                /\ "image_url" \notin DOMAIN log[1].data
        /\ DOMAIN log[1].data \subseteq {"text", "media_type", "image_url"}

C16_Witness ==
    /\ op = "create_thread"
    /\ args.image_url = "http://img"
    /\ log[1].data = [text |-> "hello", media_type |-> "IMAGE", image_url |-> "http://img"]

(* C17: the calls of one post_thread invocation are ordered create, status  *)
(* polls, at most one publish: the first poll follows create with no sleep, *)
(* every later poll follows exactly one 5-unit sleep and is issued only     *)
(* after a poll that returned IN_PROGRESS, and each call has its response   *)
(* before the next one is issued.                                           *)
C17_CallsAreOrdered ==
    op = "post_thread" =>
        /\ Len(log) >= 1
        /\ log[1].op = "create"
        /\ \A i \in 2..Len(log) :
             CASE log[i].op = "status" ->
                    \/ i = 2
                    \/ /\ i >= 4
                       /\ log[i - 1].op = "sleep"
                       /\ log[i - 2].op = "status"
                       /\ PollReturned(log[i - 2], "IN_PROGRESS")
               [] log[i].op = "sleep" ->
                    /\ log[i].data = [secs |-> 5]
                    /\ log[i - 1].op = "status"
                    /\ i < Len(log)
                    /\ log[i + 1].op = "status"
               [] log[i].op = "publish" ->
                    /\ i = Len(log)
                    /\ i >= 3
                    /\ log[i - 1].op = "status"
                    /\ pc = "ready"
               [] OTHER -> FALSE
        /\ \A i \in 1..Len(log) :
             (i < Len(log) /\ log[i].op # "sleep") => log[i].res.kind = "http"

C17_Witness ==
    /\ op = "post_thread"
    /\ pc = "ready"
    /\ Len(Polls) = 3
    /\ Count("sleep") = 2
    /\ Last(log).op = "publish"

(* C18: the credential changes only in a successful refresh_access_token,   *)
(* and only the constructor calls refresh: post_thread, create_thread,      *)
(* get_container_status, publish_thread, retrieve_profiles and              *)
(* retrieve_thread call no refresh and leave the credential unchanged,      *)
(* also when they fail with the 401+expired signature.                      *)
C18_OnlyRefreshChangesCredential ==
    /\ [](op \notin {"ctor", "refresh_access_token"} =>
            (Count("refresh") = 0 /\ auth_token = pre_token))
    /\ [][auth_token' # auth_token =>
            /\ op' \in {"ctor", "refresh_access_token"}
            /\ RefreshSucceeded(Last(log'))
            /\ auth_token' = Last(log').res.json.access_token]_vars

C18_Witness ==
    /\ op = "retrieve_thread"
    /\ pc = "ready"
    /\ Signature401Expired(Last(log).res)
    /\ error # NoError
    /\ auth_token = pre_token
    /\ Count("refresh") = 0

(* C19: when the refresh attempted by the constructor fails, construction   *)
(* fails with the refresh error, the probe is not re-run, the credential    *)
(* is the one passed in and no user_id is set; when the constructor         *)
(* returns normally, user_id is the id returned by the last probe, which    *)
(* succeeded.                                                               *)
C19_ConstructorOutcome ==
    op = "ctor" =>
        /\ (\E i \in 1..Len(log) : log[i].op = "refresh" /\ ~RefreshSucceeded(log[i])) =>
             /\ pc = "ctor_failed"
             /\ Last(log).op = "refresh"
             /\ Count("probe") = 1
             /\ auth_token = pre_token
             /\ user_id = NoUser
             /\ error.text[1] \in {"Failed to refresh token:",
                                   "Failed to refresh token - HTTPError"}
        /\ pc = "ready" =>
             /\ Last(log).op = "probe"
             /\ OkWith(Last(log).res, "id")
             /\ user_id = Last(log).res.json.id
             /\ error = NoError
        /\ pc # "ready" => user_id = NoUser

C19_Witness ==
    /\ op = "ctor"
    /\ pc = "ctor_failed"
    /\ Last(log).op = "refresh"
    /\ Count("probe") = 1
    /\ error.text[1] = "Failed to refresh token - HTTPError"

====
